---- MODULE Spec2Model ----
(***************************************************************************)
(* Model of src/libstd/sys/windows/tcp.rs: the Windows TcpAcceptor.        *)
(*                                                                         *)
(* One listener family (one AcceptorInner behind an Arc) and up to         *)
(* MaxAcceptors TcpAcceptor handles (clones) onto it.  Every handle is     *)
(* driven by one thread: accept, set_timeout and close_accept take         *)
(* &mut self, clone takes &self and drop takes the value, so a handle that *)
(* is inside accept() or close_accept() can start nothing else.  The       *)
(* threads interleave at every access of shared state: the atomic closed   *)
(* flag, the two WSA events, the listening socket and the clock.           *)
(*                                                                         *)
(* The platform is modelled by what Winsock documents:                     *)
(*  - events are manual-reset; WSASetEvent signals, WSAEnumNetworkEvents   *)
(*    copies and clears the socket's network-event record and resets the   *)
(*    event it is given;                                                   *)
(*  - FD_ACCEPT is recorded (and the event set) when a connection arrives  *)
(*    while the notification is armed; it is re-armed by a call of         *)
(*    accept(), and recorded again at once if a connection is still queued;*)
(*  - WSAWaitForMultipleEvents returns the lowest signaled index, or       *)
(*    WSA_WAIT_TIMEOUT once the (32-bit) duration has elapsed, and never   *)
(*    times out for WSA_INFINITE;                                          *)
(*  - a queued connection that its peer gives up leaves the queue, so a     *)
(*    non-blocking accept() after FD_ACCEPT can still find nothing;         *)
(*  - a socket returned by accept() inherits the listener's event          *)
(*    association and non-blocking mode;                                   *)
(*  - every platform call whose failure the code tests may fail.           *)
(*                                                                         *)
(* u64 and DWORD are scaled to U64Bits and DwordBits bits so that the      *)
(* wrap of timer::now() + a and the truncation of `ms as DWORD` happen     *)
(* inside the explored range.  Spec is the acceptor with its clones, peers  *)
(* and closers; NumSpec is one handle with the clock and the durations      *)
(* ranging over the whole (scaled) u64.                                     *)
(***************************************************************************)
EXTENDS Integers, Sequences, FiniteSets, TLC

\* ---------------------------------------------------------------- bounds
MaxAcceptors == 2
MaxConn == 2
MaxNow == 2
U64Bits == 3
DwordBits == 2

Acceptors == 1..MaxAcceptors
Conns == 1..MaxConn

RECURSIVE Pow2(_)
Pow2(n) == IF n = 0 THEN 1 ELSE 2 * Pow2(n - 1)

U64Mod == Pow2(U64Bits)
DwordMod == Pow2(DwordBits)

\* c::WSA_INFINITE: the all-ones DWORD.
WSA_INFINITE == DwordMod - 1

\* Option<u64> arguments of set_timeout: None, Some of a short duration, and
\* Some of the smallest duration that does not fit a DWORD.
None == -1
Timeouts == {None, 1, DwordMod}

VARIABLES
    now,        \* timer::now(), the monotonic clock (ms)
    alive,      \* alive[c]: the TcpAcceptor handle c exists
    deadline,   \* TcpAcceptor.deadline, 0 = no timeout
    pc,         \* where the thread of handle c is
    result,     \* what the last accept() or close_accept() on c returned
    fd,         \* the socket the running accept() on c got from libc::accept
    waitMs,     \* the DWORD handed to WSAWaitForMultipleEvents
    waitStart,  \* the clock value when that wait was set up
    strong,     \* Arc<AcceptorInner> strong count
    closed,     \* AcceptorInner.closed
    abortEv,    \* AcceptorInner.abort is signaled
    acceptEv,   \* AcceptorInner.accept is signaled
    netEvents,  \* the listener's recorded FD_ACCEPT network event
    armed,      \* FD_ACCEPT notification is armed on the listener
    backlog,    \* connections queued on the listener, oldest first
    open,       \* which of listener / accept / abort handles are open
    releases,   \* how many times each of them was released
    sock,       \* per connection: state, event association, non-blocking mode
    arrivals,   \* connections that have arrived so far
    closeDone   \* history: some close_accept() has returned

vars == <<now, alive, deadline, pc, result, fd, waitMs, waitStart, strong,
          closed, abortEv, acceptEv, netEvents, armed, backlog, open, releases,
          sock, arrivals, closeDone>>

\* The fields every clone shares through Arc<AcceptorInner>.
shared == <<closed, abortEv, acceptEv, netEvents, armed, backlog, open, releases>>
history == <<closeDone>>

Resources == {"listener", "accept", "abort"}

NoSock == [st |-> "none", assoc |-> FALSE, nonblock |-> FALSE, returns |-> 0]

Init ==
    /\ now = 0
    /\ alive = [c \in Acceptors |-> c = 1]
    /\ deadline = [c \in Acceptors |-> 0]
    /\ pc = [c \in Acceptors |-> "idle"]
    /\ result = [c \in Acceptors |-> "none"]
    /\ fd = [c \in Acceptors |-> 0]
    /\ waitMs = [c \in Acceptors |-> 0]
    /\ waitStart = [c \in Acceptors |-> 0]
    /\ strong = 1
    /\ closed = FALSE
    /\ abortEv = FALSE
    /\ acceptEv = FALSE
    /\ netEvents = FALSE
    /\ armed = TRUE
    /\ backlog = <<>>
    /\ open = [r \in Resources |-> TRUE]
    /\ releases = [r \in Resources |-> 0]
    /\ sock = [k \in Conns |-> NoSock]
    /\ arrivals = 0
    /\ closeDone = FALSE

\* ------------------------------------------------------------ environment
\* The clock advances.
Tick ==
    /\ now < MaxNow
    /\ now' = now + 1
    /\ UNCHANGED <<alive, deadline, pc, result, fd, waitMs, waitStart, strong,
                   shared, sock, arrivals, history>>

\* The re-arming as it would be if a connection still queued were not
\* recorded again: only a later arrival would signal the accept event.
PostArmOnly(queue) ==
    /\ armed' = TRUE
    /\ UNCHANGED <<netEvents, acceptEv>>

\* FD_ACCEPT becomes recorded and the accept event set, if armed.
Post(queue) ==
    IF queue # <<>>
    THEN /\ netEvents' = TRUE
         /\ acceptEv' = TRUE
         /\ armed' = FALSE
    ELSE /\ armed' = TRUE
         /\ UNCHANGED <<netEvents, acceptEv>>

\* A peer connects: the connection is queued on the listening socket.
Arrive ==
    /\ open["listener"]
    /\ arrivals < MaxConn
    /\ arrivals' = arrivals + 1
    /\ backlog' = Append(backlog, arrivals + 1)
    /\ sock' = [sock EXCEPT ![arrivals + 1] =
                   [st |-> "queued", assoc |-> FALSE, nonblock |-> FALSE, returns |-> 0]]
    /\ IF armed
       THEN /\ netEvents' = TRUE
            /\ acceptEv' = TRUE
            /\ armed' = FALSE
       ELSE UNCHANGED <<netEvents, acceptEv, armed>>
    /\ UNCHANGED <<now, alive, deadline, pc, result, fd, waitMs, waitStart, strong,
                   closed, abortEv, open, releases, history>>

\* The queue without its i-th entry.
Without(q, i) == SubSeq(q, 1, i - 1) \o SubSeq(q, i + 1, Len(q))

\* A peer gives up a connection that is still queued: it leaves the queue;
\* what was recorded and signaled for it stays.
Abandon ==
    /\ \E i \in 1..Len(backlog) :
          /\ backlog' = Without(backlog, i)
          /\ sock' = [sock EXCEPT ![backlog[i]].st = "closed"]
    /\ UNCHANGED <<now, alive, deadline, pc, result, fd, waitMs, waitStart, strong,
                   closed, abortEv, acceptEv, netEvents, armed, open, releases,
                   arrivals, history>>

\* ------------------------------------------------------------ accept()
\* accept() returns r.
Return(c, r) ==
    /\ pc' = [pc EXCEPT ![c] = "idle"]
    /\ result' = [result EXCEPT ![c] = r]
    /\ waitMs' = [waitMs EXCEPT ![c] = 0]
    /\ waitStart' = [waitStart EXCEPT ![c] = 0]
    /\ fd' = [fd EXCEPT ![c] = 0]

\* accept() goes on at p.
Goto(c, p) ==
    /\ pc' = [pc EXCEPT ![c] = p]
    /\ UNCHANGED <<result, waitMs, waitStart, fd>>

\* `ms` as it would be if every loop iteration got a budget of its own instead
\* of what is left until the deadline.
MsFreshBudget(dl, t) == IF dl = 0 THEN WSA_INFINITE ELSE 1

\* A platform failure as it would be if it were retried like a would-block.
FatalRetried(c) == Goto(c, "loop")

\* return Err(last_net_error()): the call ends with the platform's error.
Fatal(c) == Return(c, "oserror")

\* The u64 `ms` of one loop iteration.
Ms(dl, t) ==
    IF dl = 0 THEN WSA_INFINITE
    ELSE IF dl < t THEN 0 ELSE dl - t

\* `ms as libc::DWORD`.
AsDword(ms) == ms % DwordMod

\* while !self.inner.closed.load(SeqCst): leave the loop for Err(eof()), or
\* compute ms from the deadline and the clock and call the wait.
LoopTop(c) ==
    IF closed
    THEN Return(c, "eof")
    ELSE /\ pc' = [pc EXCEPT ![c] = "wait"]
         /\ waitMs' = [waitMs EXCEPT ![c] = AsDword(Ms(deadline[c], now))]
         /\ waitStart' = [waitStart EXCEPT ![c] = now]
         /\ result' = [result EXCEPT ![c] = "none"]
         /\ UNCHANGED fd

\* The caller enters accept() and reaches the loop for the first time.
AcceptStart(c) ==
    /\ alive[c] /\ pc[c] = "idle"
    /\ LoopTop(c)
    /\ UNCHANGED <<now, alive, deadline, strong, shared, sock, arrivals, history>>

\* The loop comes round again (continue, or would-block).
LoopEntry(c) ==
    /\ pc[c] = "loop"
    /\ LoopTop(c)
    /\ UNCHANGED <<now, alive, deadline, strong, shared, sock, arrivals, history>>

\* The wait as it would be with fWaitAll = TRUE: it returns only when both
\* events are signaled.
WaitCodeWaitAll(c) ==
    IF abortEv /\ acceptEv THEN "WSA_WAIT_EVENT_0"
    ELSE IF waitMs[c] # WSA_INFINITE /\ now >= waitStart[c] + waitMs[c]
         THEN "WSA_WAIT_TIMEOUT"
         ELSE "blocked"

\* The wait as it would be if a signaled accept event were reported before a
\* signaled abort event.
WaitCodeAcceptFirst(c) ==
    IF acceptEv THEN "WSA_WAIT_EVENT_1"
    ELSE IF abortEv THEN "WSA_WAIT_EVENT_0"
    ELSE IF waitMs[c] # WSA_INFINITE /\ now >= waitStart[c] + waitMs[c]
         THEN "WSA_WAIT_TIMEOUT"
         ELSE "blocked"

\* The wait as it would be with the events array in the other order,
\* [accept, abort]: index 0 is the accept event.
WaitCodeSwapped(c) ==
    IF acceptEv THEN "WSA_WAIT_EVENT_0"
    ELSE IF abortEv THEN "WSA_WAIT_EVENT_1"
    ELSE IF waitMs[c] # WSA_INFINITE /\ now >= waitStart[c] + waitMs[c]
         THEN "WSA_WAIT_TIMEOUT"
         ELSE "blocked"

\* What WSAWaitForMultipleEvents(2, [abort, accept], FALSE, ms, FALSE) has to
\* report: the lowest signaled index, else a timeout once ms has elapsed, else
\* nothing yet (the thread stays blocked).
WaitCode(c) ==
    IF abortEv THEN "WSA_WAIT_EVENT_0"
    ELSE IF acceptEv THEN "WSA_WAIT_EVENT_1"
    ELSE IF waitMs[c] # WSA_INFINITE /\ now >= waitStart[c] + waitMs[c]
         THEN "WSA_WAIT_TIMEOUT"
         ELSE "blocked"

\* match ret { WSA_WAIT_TIMEOUT => return Err(timeout(..)),
\*             WSA_WAIT_EVENT_0 => break (the loop ends in Err(eof())),
\*             n => assert_eq!(n, WSA_WAIT_EVENT_0 + 1) and on to the enumeration }
WaitReturn(c) ==
    /\ pc[c] = "wait"
    /\ \/ /\ WaitCode(c) = "WSA_WAIT_TIMEOUT"
          /\ Return(c, "timeout")
       \/ /\ WaitCode(c) = "WSA_WAIT_EVENT_0"
          /\ Return(c, "eof")
       \/ /\ WaitCode(c) = "WSA_WAIT_EVENT_1"
          /\ Goto(c, "enum")
    /\ UNCHANGED <<now, alive, deadline, strong, shared, sock, arrivals, history>>

\* WSA_WAIT_FAILED => return Err(last_net_error())
WaitFailed(c) ==
    /\ pc[c] = "wait"
    /\ Fatal(c)
    /\ UNCHANGED <<now, alive, deadline, strong, shared, sock, arrivals, history>>

\* The enumeration as it would be if it reset events[0] as well.
EnumResetBoth ==
    /\ acceptEv' = FALSE
    /\ abortEv' = FALSE

\* The events WSAEnumNetworkEvents(fd, events[1], ..) resets: the accept event.
EnumReset ==
    /\ acceptEv' = FALSE
    /\ UNCHANGED abortEv

\* The loop as it would be without the FD_ACCEPT test: on to libc::accept.
SpuriousAccepts(c) == Goto(c, "accept")

\* if wsaevents.lNetworkEvents & FD_ACCEPT == 0 { continue }
Spurious(c) == Goto(c, "loop")

\* WSAEnumNetworkEvents copies and clears the record and resets the event;
\* without FD_ACCEPT in the copy the loop continues.
EnumEvents(c) ==
    /\ pc[c] = "enum"
    /\ netEvents' = FALSE
    /\ EnumReset
    /\ IF netEvents THEN Goto(c, "accept") ELSE Spurious(c)
    /\ UNCHANGED <<now, alive, deadline, strong, closed, armed, backlog,
                   open, releases, sock, arrivals, history>>

\* if ret != 0 { return Err(last_net_error()) }
EnumFailed(c) ==
    /\ pc[c] = "enum"
    /\ Fatal(c)
    /\ UNCHANGED <<now, alive, deadline, strong, shared, sock, arrivals, history>>

\* The accepted socket as libc::accept hands it out: it inherits the listener's
\* event association and non-blocking mode.
Accepted(s) == [s EXCEPT !.st = "held", !.assoc = TRUE, !.nonblock = TRUE]

\* The match as it would be without the would-block arm.
WouldBlockFatal(c) == Return(c, "wouldblock")

\* -1 if wouldblock() => {}: the match falls through to the loop condition.
WouldBlock(c) == Goto(c, "loop")

\* libc::accept on the non-blocking listener: the oldest queued connection, or
\* would-block.  The call re-arms FD_ACCEPT.
SockAccept(c) ==
    /\ pc[c] = "accept"
    /\ IF backlog # <<>>
       THEN /\ backlog' = Tail(backlog)
            /\ fd' = [fd EXCEPT ![c] = Head(backlog)]
            /\ sock' = [sock EXCEPT ![Head(backlog)] = Accepted(sock[Head(backlog)])]
            /\ pc' = [pc EXCEPT ![c] = "select"]
            /\ UNCHANGED <<result, waitMs, waitStart>>
       ELSE /\ WouldBlock(c)
            /\ UNCHANGED <<backlog, sock>>
    /\ Post(backlog')
    /\ UNCHANGED <<now, alive, deadline, strong, closed, abortEv, open, releases,
                   arrivals, history>>

\* -1 => return Err(last_net_error()): libc::accept fails for another reason.
SockAcceptFailed(c) ==
    /\ pc[c] = "accept"
    /\ Fatal(c)
    /\ Post(backlog)
    /\ UNCHANGED <<now, alive, deadline, strong, closed, abortEv, backlog, open, releases,
                   sock, arrivals, history>>

\* Drop for TcpStream: the handle is closed.
StreamDropped(s) == [st |-> "closed", assoc |-> FALSE, nonblock |-> FALSE, returns |-> s.returns]

\* WSAEventSelect(fd, events[1], 0) returning 0: the new socket no longer
\* feeds the accept event.
Deselected(s) == [s EXCEPT !.assoc = FALSE]

\* The hand-off as it would be without set_nonblocking(fd, false).
BlockingSkipped(s) == s

\* set_nonblocking(fd, false) returning Ok.
Blocking(s) == [s EXCEPT !.nonblock = FALSE]

\* Ok(stream) leaves accept().
Handed(s) == [s EXCEPT !.st = "returned", !.returns = @ + 1]

\* let stream = TcpStream::new(fd); WSAEventSelect(fd, events[1], 0);
\* try!(set_nonblocking(fd, false)); return Ok(stream)
Handoff(c) ==
    /\ pc[c] = "select"
    /\ sock' = [sock EXCEPT ![fd[c]] = Handed(Blocking(Deselected(sock[fd[c]])))]
    /\ Return(c, "conn")
    /\ UNCHANGED <<now, alive, deadline, strong, shared, arrivals, history>>

\* The failure path as it would be if the TcpStream were built only after
\* both calls had succeeded: the raw handle is left as it is.
HandoffFailedLeaks(c) ==
    /\ pc[c] = "select"
    /\ Return(c, "oserror")
    /\ UNCHANGED <<now, alive, deadline, strong, shared, sock, arrivals, history>>

\* if ret != 0 { return Err(..) } or try! failing: the stream is dropped on
\* the way out.
HandoffFailed(c) ==
    /\ pc[c] = "select"
    /\ sock' = [sock EXCEPT ![fd[c]] = StreamDropped(sock[fd[c]])]
    /\ Return(c, "oserror")
    /\ UNCHANGED <<now, alive, deadline, strong, shared, arrivals, history>>

\* ------------------------------------------------------------ set_timeout()
\* timeout.map(|a| timer::now() + a).unwrap_or(0), in u64 arithmetic.
NewDeadline(t) == IF t = None THEN 0 ELSE (now + t) % U64Mod

\* self.deadline = ..: the deadline of this handle alone.
StoreDeadline(c, d) == deadline' = [deadline EXCEPT ![c] = d]

SetTimeout(c, t) ==
    /\ alive[c] /\ pc[c] = "idle"
    /\ StoreDeadline(c, NewDeadline(t))
    /\ UNCHANGED <<now, alive, pc, result, fd, waitMs, waitStart, strong, shared,
                   sock, arrivals, history>>

\* ------------------------------------------------------------ close_accept()
\* close_accept() as it would be if it set the event and never the flag.
StoreClosedSkipped == closed' = closed

\* close_accept() as it would be if it flipped the flag.
StoreClosedToggled == closed' = ~closed

\* self.inner.closed.store(true, SeqCst)
StoreClosed == closed' = TRUE

CloseStore(c) ==
    /\ alive[c] /\ pc[c] = "idle"
    /\ StoreClosed
    /\ pc' = [pc EXCEPT ![c] = "setevent"]
    /\ result' = [result EXCEPT ![c] = "none"]
    /\ UNCHANGED <<now, alive, deadline, fd, waitMs, waitStart, strong,
                   abortEv, acceptEv, netEvents, armed, backlog, open, releases,
                   sock, arrivals, history>>

\* c::WSASetEvent(self.inner.abort.handle()) returning TRUE.
SignalAbort == abortEv' = TRUE

\* if ret == libc::TRUE { Ok(()) }
CloseSignal(c) ==
    /\ pc[c] = "setevent"
    /\ SignalAbort
    /\ result' = [result EXCEPT ![c] = "ok"]
    /\ pc' = [pc EXCEPT ![c] = "idle"]
    /\ closeDone' = TRUE
    /\ UNCHANGED <<now, alive, deadline, fd, waitMs, waitStart, strong,
                   closed, acceptEv, netEvents, armed, backlog, open, releases,
                   sock, arrivals>>

\* else { Err(last_net_error()) }: WSASetEvent failed, nothing is signaled.
CloseSignalFailed(c) ==
    /\ pc[c] = "setevent"
    /\ result' = [result EXCEPT ![c] = "err"]
    /\ pc' = [pc EXCEPT ![c] = "idle"]
    /\ closeDone' = TRUE
    /\ UNCHANGED <<now, alive, deadline, fd, waitMs, waitStart, strong, shared,
                   sock, arrivals>>

\* ------------------------------------------------------------ clone and drop
\* clone() as it would be if it copied the deadline.
CloneDeadlineCopied(src) == deadline[src]

\* The deadline field of the TcpAcceptor that clone() builds from src.
CloneDeadline(src) == 0

\* The handle slot a new clone takes.
FreeSlot == CHOOSE d \in Acceptors : ~alive[d] /\ \A e \in Acceptors : ~alive[e] => d <= e

\* TcpAcceptor { inner: self.inner.clone(), deadline: 0 }
Clone(src) ==
    /\ alive[src] /\ pc[src] = "idle"
    /\ \E d \in Acceptors : ~alive[d]
    /\ alive' = [alive EXCEPT ![FreeSlot] = TRUE]
    /\ deadline' = [deadline EXCEPT ![FreeSlot] = CloneDeadline(src)]
    /\ strong' = strong + 1
    /\ UNCHANGED <<now, pc, result, fd, waitMs, waitStart, shared, sock,
                   arrivals, history>>

\* Arc's drop: the AcceptorInner goes with the last strong reference.
LastRef == strong = 1

\* Dropping AcceptorInner drops the listener's FileDesc (close_on_drop) and
\* both Events (WSACloseEvent).
DropInner ==
    /\ open' = [r \in Resources |-> FALSE]
    /\ releases' = [r \in Resources |-> releases[r] + 1]

\* The drop glue as it would be if every TcpAcceptor owned the listener and
\* the events itself.
DropGlueOwned == DropInner

\* Drop glue of TcpAcceptor { inner: Arc<AcceptorInner>, .. }: the inner state
\* is dropped with the last handle.
DropGlue == IF LastRef THEN DropInner ELSE UNCHANGED <<open, releases>>

\* A TcpAcceptor handle goes out of scope.
Drop(c) ==
    /\ alive[c] /\ pc[c] = "idle"
    /\ alive' = [alive EXCEPT ![c] = FALSE]
    /\ deadline' = [deadline EXCEPT ![c] = 0]
    /\ result' = [result EXCEPT ![c] = "none"]
    /\ fd' = [fd EXCEPT ![c] = 0]
    /\ strong' = strong - 1
    /\ DropGlue
    /\ UNCHANGED <<now, pc, waitMs, waitStart, closed, abortEv, acceptEv, netEvents,
                   armed, backlog, sock, arrivals, history>>

\* ------------------------------------------------------------ specification
\* What the thread of handle c does next when the platform call it is in
\* succeeds.
Step(c) ==
    \/ LoopEntry(c)
    \/ WaitReturn(c)
    \/ EnumEvents(c)
    \/ SockAccept(c)
    \/ Handoff(c)
    \/ CloseSignal(c)

Next ==
    \/ Tick
    \/ Arrive
    \/ Abandon
    \/ \E c \in Acceptors : AcceptStart(c)
    \/ \E c \in Acceptors : LoopEntry(c)
    \/ \E c \in Acceptors : WaitReturn(c)
    \/ \E c \in Acceptors : WaitFailed(c)
    \/ \E c \in Acceptors : EnumEvents(c)
    \/ \E c \in Acceptors : EnumFailed(c)
    \/ \E c \in Acceptors : SockAccept(c)
    \/ \E c \in Acceptors : SockAcceptFailed(c)
    \/ \E c \in Acceptors : Handoff(c)
    \/ \E c \in Acceptors : HandoffFailed(c)
    \/ \E c \in Acceptors, t \in Timeouts : SetTimeout(c, t)
    \/ \E c \in Acceptors : CloseStore(c)
    \/ \E c \in Acceptors : CloseSignal(c)
    \/ \E c \in Acceptors : CloseSignalFailed(c)
    \/ \E c \in Acceptors : Clone(c)
    \/ \E c \in Acceptors : Drop(c)

Spec == Init /\ [][Next]_vars

\* The scheduler runs every thread that is not blocked: a thread inside
\* accept() or close_accept() takes its next step.  Nothing obliges the
\* platform to fail, the clock to reach a value, a peer to connect or a
\* caller to call.
LiveSpec == Spec /\ \A c \in Acceptors : WF_vars(Step(c))

\* The arithmetic of the deadline on its own: one handle, no connection and
\* no close, the clock at any u64 value when the listener is set up, and
\* set_timeout called with None or any u64 duration.
Durations == 0..(U64Mod - 1)

NumInit ==
    /\ now \in 0..(U64Mod - 1)
    /\ alive = [c \in Acceptors |-> c = 1]
    /\ deadline = [c \in Acceptors |-> 0]
    /\ pc = [c \in Acceptors |-> "idle"]
    /\ result = [c \in Acceptors |-> "none"]
    /\ fd = [c \in Acceptors |-> 0]
    /\ waitMs = [c \in Acceptors |-> 0]
    /\ waitStart = [c \in Acceptors |-> 0]
    /\ strong = 1
    /\ closed = FALSE
    /\ abortEv = FALSE
    /\ acceptEv = FALSE
    /\ netEvents = FALSE
    /\ armed = TRUE
    /\ backlog = <<>>
    /\ open = [r \in Resources |-> TRUE]
    /\ releases = [r \in Resources |-> 0]
    /\ sock = [k \in Conns |-> NoSock]
    /\ arrivals = 0
    /\ closeDone = FALSE

NumNext ==
    \/ Tick
    \/ \E t \in Durations \cup {None} : SetTimeout(1, t)
    \/ AcceptStart(1)
    \/ WaitReturn(1)
    \/ WaitFailed(1)

NumSpec == NumInit /\ [][NumNext]_vars

TypeOK ==
    /\ now \in 0..MaxNow
    /\ alive \in [Acceptors -> BOOLEAN]
    /\ deadline \in [Acceptors -> 0..(U64Mod - 1)]
    /\ pc \in [Acceptors -> {"idle", "loop", "wait", "enum", "accept", "select", "setevent"}]
    /\ result \in [Acceptors -> {"none", "conn", "timeout", "eof", "oserror", "ok", "err"}]
    /\ fd \in [Acceptors -> 0..MaxConn]
    /\ waitMs \in [Acceptors -> 0..(DwordMod - 1)]
    /\ strong = Cardinality({c \in Acceptors : alive[c]})
    /\ \A c \in Acceptors : (fd[c] # 0) = (pc[c] = "select")

\* ------------------------------------------------------------ properties
\* The thread of c is inside accept().
InAccept(c) == pc[c] \in {"loop", "wait", "enum", "accept", "select"}

\* This step ends the accept() call on c.
AcceptReturns(c) == InAccept(c) /\ pc'[c] = "idle"

\* C1: once some close_accept() has returned, every accept() that starts, on
\* any handle, with any deadline and with or without a queued connection,
\* ends at its first loop test with Eof: it never reaches the wait and never
\* returns anything else.
C1_EofAfterClose ==
    [][\A c \in Acceptors :
          (closeDone /\ AcceptStart(c)) => (pc'[c] = "idle" /\ result'[c] = "eof")]_vars

\* An accept() on a handle with a deadline, with a connection queued, has
\* returned Eof after a close_accept() returned.
C1_Witness ==
    \E c \in Acceptors :
        /\ closeDone /\ alive[c] /\ pc[c] = "idle" /\ result[c] = "eof"
        /\ deadline[c] # 0 /\ backlog # <<>>

C3_OneWinner ==
    /\ [](\A k \in Conns : sock[k].returns <= 1)
    /\ [][\A c \in Acceptors :
             (AcceptReturns(c) /\ deadline[c] = 0 /\ ~closed)
                 => \/ result'[c] = "conn" /\ sock'[fd[c]].returns = 1
                    \/ result'[c] = "oserror"]_vars

\* One connection arrived; one of two callers without timeout has it, the
\* other was woken, lost, and is back at the loop entry.
C3_Witness ==
    \E c, d \in Acceptors :
        /\ c # d /\ arrivals = 1 /\ ~closed
        /\ deadline[c] = 0 /\ deadline[d] = 0
        /\ pc[c] = "idle" /\ result[c] = "conn" /\ sock[1].st = "returned"
        /\ pc[d] = "loop"

\* C4 (as claimed): accept() returns Timeout only when the clock has reached
\* the deadline of its handle.
C4_TimeoutNotEarly ==
    [][\A c \in Acceptors :
          (AcceptReturns(c) /\ result'[c] = "timeout") => now >= deadline[c]]_vars

\* C5 (as claimed): set_timeout writes the deadline of its own handle only,
\* and of two handles waiting with deadlines d1 < d2 the second does not
\* return Timeout before its own deadline.
C5_IndependentDeadlines ==
    /\ [][\A c \in Acceptors, t \in Timeouts :
             SetTimeout(c, t) =>
                 /\ \A d \in Acceptors \ {c} : deadline'[d] = deadline[d]
                 /\ UNCHANGED <<closed, abortEv, acceptEv>>]_vars
    /\ [][\A c, d \in Acceptors :
             (/\ pc[c] = "wait" /\ pc[d] = "wait"
              /\ 0 < deadline[c] /\ deadline[c] < deadline[d]
              /\ AcceptReturns(d) /\ result'[d] = "timeout")
                 => now >= deadline[d]]_vars

\* The frame part of C5 alone: set_timeout on c leaves every other deadline,
\* the closed flag and both events as they were.
C5_Frame ==
    [][\A c \in Acceptors, t \in Timeouts :
          SetTimeout(c, t) =>
              /\ \A d \in Acceptors \ {c} : deadline'[d] = deadline[d]
              /\ UNCHANGED <<closed, abortEv, acceptEv, netEvents, backlog, open>>]_vars

\* C6: clone() builds a handle with deadline 0 whatever the deadline of its
\* source, leaves the source's deadline alone, and adds one reference to the
\* one shared AcceptorInner, which it leaves as it was.
C6_CloneNoTimeout ==
    [][\A src \in Acceptors :
          Clone(src) =>
              /\ ~alive[FreeSlot] /\ alive'[FreeSlot]
              /\ deadline'[FreeSlot] = 0
              /\ deadline'[src] = deadline[src]
              /\ strong' = strong + 1
              /\ UNCHANGED shared]_vars

\* A handle with a deadline next to a handle without one: the second handle
\* of the model only ever comes from clone().
C6_Witness ==
    \E c, d \in Acceptors :
        c # d /\ alive[c] /\ alive[d] /\ deadline[c] # 0 /\ deadline[d] = 0

\* The first close_accept() has done its work: flag stored, abort signaled.
Closed == closed /\ abortEv

\* C7: once a close_accept() has stored the flag and signaled the abort
\* event, a further close_accept(), on any handle, changes nothing that the
\* handles share, and returns Ok unless WSASetEvent itself fails.
C7_CloseIdempotent ==
    [][\A c \in Acceptors :
          /\ (Closed /\ (CloseStore(c) \/ CloseSignal(c) \/ CloseSignalFailed(c)))
                => UNCHANGED shared
          /\ (Closed /\ pc[c] = "setevent" /\ pc'[c] = "idle" /\ ~CloseSignalFailed(c))
                => result'[c] = "ok"]_vars

\* Two handles have each returned Ok from close_accept().
C7_Witness ==
    \E c, d \in Acceptors :
        c # d /\ Closed /\ result[c] = "ok" /\ result[d] = "ok"

\* C8: a connection that accept() has returned is no longer associated with
\* the accept event and is in blocking mode.
C8_ReturnedIsBlocking ==
    \A k \in Conns : sock[k].st = "returned" => (~sock[k].assoc /\ ~sock[k].nonblock)

\* Some accept() has returned a connection.
C8_Witness ==
    \E c \in Acceptors, k \in Conns : result[c] = "conn" /\ sock[k].st = "returned"

\* C9: the closed flag never goes from true to false and the abort event is
\* never un-signaled, whatever step is taken.
C9_CloseIsPermanent ==
    [][(closed => closed') /\ (abortEv => abortEv')]_vars

\* A caller has enumerated the network events (and goes on to accept) while
\* the acceptor is closed and the abort event signaled.
C9_Witness ==
    \E c \in Acceptors : Closed /\ pc[c] = "accept"

\* C10: while a handle exists the listener and both events are open and have
\* never been released; when no handle is left each has been released
\* exactly once.
C10_SharedUntilLastDrop ==
    IF \E c \in Acceptors : alive[c]
    THEN \A r \in Resources : open[r] /\ releases[r] = 0
    ELSE \A r \in Resources : ~open[r] /\ releases[r] = 1

\* The first handle is gone and the listener state is still open, while the
\* other handle is blocked in accept().
C10_Witness ==
    /\ ~alive[1] /\ alive[2] /\ pc[2] = "wait"
    /\ \A r \in Resources : open[r] /\ releases[r] = 0

\* C11 (as claimed): an accept() call that ends while the closed flag is true
\* does not return a connection.
C11_CloseWins ==
    [][\A c \in Acceptors :
          (AcceptReturns(c) /\ closed) => result'[c] # "conn"]_vars

\* C11 (amended): close wins where the code looks: an accept() call that
\* tests the closed flag at a loop entry while it is true, or whose wait
\* returns while the abort event is signaled, ends there with Eof, even with
\* a connection queued and the accept event signaled; only the failure of the
\* wait itself (OsError) ends it otherwise.
C11_CloseWinsAtLoopAndWait ==
    [][\A c \in Acceptors :
          /\ (closed /\ (AcceptStart(c) \/ LoopEntry(c)))
                => (pc'[c] = "idle" /\ result'[c] = "eof")
          /\ (abortEv /\ pc[c] = "wait" /\ pc'[c] # "wait")
                => (pc'[c] = "idle" /\ result'[c] \in {"eof", "oserror"})]_vars

\* A caller sits in the wait with a deadline while both events are signaled
\* and a connection is queued: its wait has to report the abort event.
C11_Witness ==
    \E c \in Acceptors :
        /\ pc[c] = "wait" /\ deadline[c] # 0
        /\ abortEv /\ acceptEv /\ backlog # <<>>

\* C12: accept() never writes the deadline of its handle, and every loop
\* iteration, the first and those after a spurious wakeup or a would-block,
\* computes its wait from that deadline: a wait set up at or after the
\* deadline is a wait of 0 ms, and with no event signaled it ends the call
\* with Timeout (or with the OsError of a failed wait).
C12_DeadlineKept ==
    /\ [][\A c \in Acceptors : InAccept(c) => deadline'[c] = deadline[c]]_vars
    /\ [](\A c \in Acceptors :
             (pc[c] = "wait" /\ deadline[c] # 0 /\ waitStart[c] >= deadline[c])
                 => waitMs[c] = 0)
    /\ [][\A c \in Acceptors :
             (/\ pc[c] = "wait" /\ deadline[c] # 0 /\ waitStart[c] >= deadline[c]
              /\ ~abortEv /\ ~acceptEv /\ pc'[c] # "wait")
                 => (pc'[c] = "idle" /\ result'[c] \in {"timeout", "oserror"})]_vars

\* A call with a deadline is back at the loop entry, after a spurious wakeup
\* or a would-block, when the clock has reached the deadline.
C12_Witness ==
    \E c \in Acceptors :
        pc[c] = "loop" /\ deadline[c] # 0 /\ now >= deadline[c] /\ ~closed

\* The results accept() may return.
AcceptResults == {"conn", "timeout", "eof", "oserror"}

\* C13: a would-block of the non-blocking accept and an enumeration without
\* FD_ACCEPT return nothing: each sends the same call back to the loop entry,
\* where it tests the closed flag and then waits; and whatever accept()
\* returns is a connection, Timeout, Eof or OsError.
C13_RetriesAbsorbed ==
    [][\A c \in Acceptors :
          /\ (SockAccept(c) /\ backlog = <<>>)
                => (pc'[c] = "loop" /\ result'[c] = result[c])
          /\ (EnumEvents(c) /\ ~netEvents)
                => (pc'[c] = "loop" /\ result'[c] = result[c])
          /\ (pc[c] = "loop" /\ pc'[c] # "loop")
                => IF closed THEN pc'[c] = "idle" /\ result'[c] = "eof"
                             ELSE pc'[c] = "wait"
          /\ ((AcceptStart(c) \/ InAccept(c)) /\ pc'[c] = "idle")
                => result'[c] \in AcceptResults]_vars

\* The one connection that arrived was given up by its peer after it woke
\* two callers: one enumerated FD_ACCEPT and found would-block, the other
\* enumerated nothing, and both are back at the loop entry.
C13_Witness ==
    \E c, d \in Acceptors :
        /\ c # d /\ pc[c] = "loop" /\ pc[d] = "loop"
        /\ arrivals = 1 /\ backlog = <<>> /\ sock[1].st = "closed"

\* C14: a failure of the wait, of the enumeration or of the non-blocking
\* accept (other than would-block) ends the call in that step with OsError:
\* it goes through no further wait or accept, and leaves the closed flag, the
\* abort event, every deadline, the queue and every connection as they were.
C14_FailuresFatal ==
    [][\A c \in Acceptors :
          (WaitFailed(c) \/ EnumFailed(c) \/ SockAcceptFailed(c))
              => /\ pc'[c] = "idle" /\ result'[c] = "oserror"
                 /\ UNCHANGED <<closed, abortEv, deadline, backlog, sock>>]_vars

\* An accept() has returned OsError while connections have arrived and none
\* of them has been taken from the queue or given up: the failure was one
\* of the wait, the enumeration or the accept.
C14_Witness ==
    \E c \in Acceptors :
        /\ pc[c] = "idle" /\ result[c] = "oserror"
        /\ arrivals > 0 /\ Len(backlog) = arrivals

\* C15: accept() returns Eof only on a closed acceptor: at every return of
\* Eof the closed flag is true or the abort event signaled, and no handle
\* shows an Eof result while the flag is false.
C15_EofOnlyWhenClosed ==
    /\ [][\A c \in Acceptors :
             ((AcceptStart(c) \/ InAccept(c)) /\ pc'[c] = "idle" /\ result'[c] = "eof")
                 => (closed \/ abortEv)]_vars
    /\ [](\A c \in Acceptors : result[c] = "eof" => closed)

\* An accept() has returned Eof on the strength of the stored flag alone: the
\* close_accept() that stored it has not signaled the abort event yet.
C15_Witness ==
    \E c, d \in Acceptors :
        /\ pc[c] = "idle" /\ result[c] = "eof"
        /\ closed /\ ~abortEv /\ pc[d] = "setevent"

\* C16: close_accept() stores the closed flag before it signals the abort
\* event: whenever the abort event is signaled, and whenever a close_accept()
\* stands before its WSASetEvent, the flag is true.
C16_AbortImpliesClosed ==
    /\ abortEv => closed
    /\ \A c \in Acceptors : pc[c] = "setevent" => closed

\* The abort event is signaled while one caller is still in the wait and
\* another close_accept() stands before its WSASetEvent.
C16_Witness ==
    \E c, d \in Acceptors :
        abortEv /\ closed /\ pc[c] = "wait" /\ pc[d] = "setevent"

\* C17 (as claimed): set_timeout(Some(d)) leaves the handle with the
\* deadline now + d, and never with the no-timeout sentinel 0, for every u64
\* duration d and every clock value.
C17_DeadlineNeverSentinel ==
    [][\A d \in Durations :
          SetTimeout(1, d) => (deadline'[1] = now + d /\ deadline'[1] # 0)]_vars

\* max(0, a).
Max0(a) == IF a < 0 THEN 0 ELSE a

\* C18 (as claimed): in every wait of a handle with a timeout set, the
\* duration handed to the wait is max(0, deadline - now), with now the clock
\* value the iteration read, and never the infinite-wait value.
C18_WaitIsRemaining ==
    \A c \in Acceptors :
        (pc[c] = "wait" /\ deadline[c] # 0)
            => /\ waitMs[c] = Max0(deadline[c] - waitStart[c])
               /\ waitMs[c] # WSA_INFINITE

\* Some caller without a timeout is inside accept().
Waiter == \E c \in Acceptors : InAccept(c) /\ deadline[c] = 0

\* A platform call of the accept() on c fails in this step.
PlatformFails(c) ==
    WaitFailed(c) \/ EnumFailed(c) \/ SockAcceptFailed(c) \/ HandoffFailed(c)

\* C19: a queued connection does not stay queued for ever while the
\* acceptor is not closed and some caller without a timeout is inside
\* accept(): under fair scheduling it leaves the queue, taken by an accept()
\* (or given up by its peer), whichever caller's enumeration reset the
\* accept event or took the FD_ACCEPT record first.  Set aside are the runs
\* in which platform calls go on failing for ever.
C19_NoStranding ==
    <>[][\A c \in Acceptors : ~PlatformFails(c)]_vars =>
        \A k \in Conns :
            (sock[k].st = "queued")
                ~> (sock[k].st # "queued" \/ closed \/ ~Waiter)

\* A connection is queued while one caller has taken the FD_ACCEPT record
\* and reset the accept event, and another caller without a timeout is
\* blocked in the wait with nothing signaled.
C19_Witness ==
    \E c, d \in Acceptors :
        /\ pc[c] = "wait" /\ deadline[c] = 0 /\ pc[d] = "accept"
        /\ ~acceptEv /\ ~netEvents /\ ~closed /\ backlog # <<>>

\* C20: a handle that libc::accept has produced does not leak: while it is
\* neither returned nor closed it belongs to the accept() call that is
\* between libc::accept and its return, and that call ends either with the
\* connection returned or with OsError and the handle closed.
C20_NoLeak ==
    /\ [](\A k \in Conns :
             sock[k].st = "held" => \E c \in Acceptors : pc[c] = "select" /\ fd[c] = k)
    /\ [][\A c \in Acceptors :
             (pc[c] = "select" /\ pc'[c] # "select")
                 => /\ pc'[c] = "idle"
                    /\ \/ result'[c] = "conn" /\ sock'[fd[c]].st = "returned"
                       \/ result'[c] = "oserror" /\ sock'[fd[c]].st = "closed"]_vars

\* An accept() holds a handle that libc::accept has just produced, still
\* associated with the accept event and non-blocking.
C20_Witness ==
    \E c \in Acceptors :
        /\ pc[c] = "select" /\ sock[fd[c]].st = "held"
        /\ sock[fd[c]].assoc /\ sock[fd[c]].nonblock

====
